---- MODULE Spec2Model ----
(***************************************************************************)
(* A model of boostbox: the Scanner (path catalog, classifier, walker and  *)
(* report), the Cleaner (disposal), the Optimizer (optimize_disk) and the  *)
(* Dashboard's Cleaner tab (scan_files, clear_junk_files), on a            *)
(* Linux host.  A path is the sequence of its components ("/tmp/a.log" is  *)
(* <<"tmp", "a.log">>, "/" is <<>>); every path of the model is absolute   *)
(* and normalised, so os.path.abspath leaves it as it is.                  *)
(***************************************************************************)
EXTENDS Integers, Sequences, FiniteSets, TLC

VARIABLES
    home,       \* os.path.expanduser("~") of the process
    exists,     \* the files and directories present on disk
    unreadable, \* the files whose os.stat raises (permission error, vanished after listing)
    locked,     \* the files whose os.remove / send2trash raises (permission, in use)
    meta,       \* file -> [mtime, size]
    now,        \* time.time()
    envSteps,   \* how many steps the environment has taken
    cls,        \* the last call of Scanner._classify_file: its arguments and result
    cl,         \* the Cleaner and its running clean_paths call
    sc,         \* the Scanner: _found, the running scan_all call, the last report
    op,         \* the Optimizer's running optimize_disk call
    db          \* the Dashboard: scanner.last_scan, the running handler, the log text

vars == <<home, exists, unreadable, locked, meta, now, envSteps, cls, cl, sc, op, db>>

----------------------------------------------------------------------------
(* Bounds of the model *)

\* the environment (other processes, the clock) takes at most MaxEnv steps
MaxEnv == 1

\* clean_paths is given at most MaxPaths paths
MaxPaths == 2

----------------------------------------------------------------------------
(* Paths *)

\* the None a classification returns
None == "None"

\* age_seconds=None: no age gate
NoAge == 0 - 1

ROOT == <<>>
TMP == <<"tmp">>
ETC == <<"etc">>
VAR == <<"var">>
OPT == <<"opt", "tools">>

\* the home directories the process may run with: a user account, and a
\* service account whose home lies under /var
Homes == {<<"home", "u">>, <<"var", "lib", "u">>}

CacheDir(h) == h \o <<".cache">>
ChromeDir(h) == h \o <<".cache", "google-chrome">>
ChromiumDir(h) == h \o <<".cache", "chromium">>
MozDir(h) == h \o <<".cache", "mozilla">>
DownloadDir(h) == h \o <<"Downloads">>

\* d is p or an ancestor of p, component by component
IsPrefix(d, p) == Len(d) <= Len(p) /\ SubSeq(p, 1, Len(d)) = d

\* path.startswith(p + os.sep): the string of "/" followed by the separator is
\* "//", which begins no normalised path, so the entry "/" covers nothing below it
StartsWithSep(path, p) == p # ROOT /\ Len(p) < Len(path) /\ IsPrefix(p, path)

\* os.path.commonpath([a, b]): the longest common run of leading components
CommonPath(a, b) ==
    LET n == IF Len(a) < Len(b) THEN Len(a) ELSE Len(b)
        agree == {k \in 0..n : \A i \in 1..k : a[i] = b[i]}
    IN  SubSeq(a, 1, CHOOSE k \in agree : \A j \in agree : j <= k)

\* Path(p).suffix: the last component's text from its last dot on
RawSuffix(name) ==
    CASE name = "a.log" -> ".log"
      [] name = "c.log" -> ".log"
      [] name = "o.tmp" -> ".tmp"
      [] name = "S.EXE" -> ".EXE"
      [] name = "s.exe" -> ".exe"
      [] name = "r.sh" -> ".sh"
      [] name = "big.iso" -> ".iso"
      [] OTHER -> ""

\* str.lower on a suffix
Lower(s) == IF s = ".EXE" THEN ".exe" ELSE s

Suffix(p) == IF p = ROOT THEN "" ELSE Lower(RawSuffix(p[Len(p)]))

----------------------------------------------------------------------------
(* Scanner.__init__: the extension sets and the path catalog *)

junk_extensions ==
    {".tmp", ".log", ".bak", ".old", ".crdownload", ".part", ".cache", ".swp", ".~", ".trashinfo"}

potentially_dangerous_extensions ==
    {".exe", ".msi", ".bat", ".cmd", ".ps1", ".vbs", ".scr", ".jar", ".apk", ".dmg", ".pkg"}

suspicious_script_extensions == {".sh", ".py", ".pl", ".rb"}

\* the directories present when the catalog is resolved
DirsOnDisk(h) == {ROOT, TMP, ETC, VAR, OPT, h, CacheDir(h), MozDir(h), DownloadDir(h)}

\* [d for d in dirs if os.path.exists(d)]
ExistingOf(dirs, ex) == SelectSeq(dirs, LAMBDA d : d \in ex)

get_temp_dirs(h) == ExistingOf(<<TMP, CacheDir(h)>>, DirsOnDisk(h))

get_browser_cache_dirs(h) ==
    ExistingOf(<<ChromeDir(h), ChromiumDir(h), MozDir(h)>>, DirsOnDisk(h))

get_download_dirs(h) == ExistingOf(<<DownloadDir(h)>>, DirsOnDisk(h))

\* Scanner._get_whitelist_paths: not filtered by existence
get_whitelist_paths ==
    {ROOT, <<"bin">>, <<"sbin">>, <<"usr">>, <<"usr", "bin">>, <<"usr", "sbin">>,
     <<"lib">>, <<"lib64">>, ETC, VAR}

is_under_whitelist(path) ==
    \E p \in get_whitelist_paths : path = p \/ StartsWithSep(path, p)

Range(s) == {s[i] : i \in 1..Len(s)}

\* any(os.path.commonpath([file_path, d]) == d for d in dirs)
InAnyDir(path, dirs) == \E d \in Range(dirs) : CommonPath(path, d) = d

LargeFloor == 20 * 1024 * 1024

Max(a, b) == IF a >= b THEN a ELSE b

----------------------------------------------------------------------------
(* Scanner._classify_file *)

StatFail == [ok |-> FALSE, mtime |-> 0, size |-> 0]

\* the classifier with the age gate placed after the extension rules
classify_file_late_gate(h, file_path, st, t, age_seconds, size_threshold_bytes) ==
    LET suffix == Suffix(file_path)
        dl_tmp == get_download_dirs(h) \o get_temp_dirs(h)
        fresh == age_seconds # NoAge /\ (t - st.mtime) < age_seconds
    IN  IF ~st.ok THEN "skip"
        ELSE IF is_under_whitelist(file_path) THEN "skipped"
        ELSE IF suffix \in potentially_dangerous_extensions
             THEN (IF InAnyDir(file_path, dl_tmp) THEN "harmful" ELSE "skipped")
        ELSE IF suffix \in suspicious_script_extensions
             THEN (IF InAnyDir(file_path, dl_tmp) THEN "suspicious" ELSE None)
        ELSE IF suffix \in junk_extensions
             THEN (IF size_threshold_bytes # 0 /\ st.size < size_threshold_bytes
                   THEN None ELSE "junk")
        ELSE IF fresh THEN None
        ELSE IF size_threshold_bytes # 0
                /\ st.size >= Max(size_threshold_bytes, LargeFloor)
             THEN (IF InAnyDir(file_path, dl_tmp) THEN "large"
                   ELSE IF InAnyDir(file_path, get_browser_cache_dirs(h)) THEN "junk"
                   ELSE None)
        ELSE None

\* the classifier with the large-file rule placed before the extension rules
classify_file_large_first(h, file_path, st, t, age_seconds, size_threshold_bytes) ==
    LET suffix == Suffix(file_path)
        dl_tmp == get_download_dirs(h) \o get_temp_dirs(h)
        big == size_threshold_bytes # 0 /\ st.size >= Max(size_threshold_bytes, LargeFloor)
    IN  IF ~st.ok THEN "skip"
        ELSE IF is_under_whitelist(file_path) THEN "skipped"
        ELSE IF age_seconds # NoAge /\ (t - st.mtime) < age_seconds THEN None
        ELSE IF big /\ InAnyDir(file_path, dl_tmp) THEN "large"
        ELSE IF big /\ InAnyDir(file_path, get_browser_cache_dirs(h)) THEN "junk"
        ELSE IF suffix \in potentially_dangerous_extensions
             THEN (IF InAnyDir(file_path, dl_tmp) THEN "harmful" ELSE "skipped")
        ELSE IF suffix \in suspicious_script_extensions
             THEN (IF InAnyDir(file_path, dl_tmp) THEN "suspicious" ELSE None)
        ELSE IF suffix \in junk_extensions
             THEN (IF size_threshold_bytes # 0 /\ st.size < size_threshold_bytes
                   THEN None ELSE "junk")
        ELSE None

\* st is the outcome of os.stat(file_path), t the value of time.time()
classify_file(h, file_path, st, t, age_seconds, size_threshold_bytes) ==
    LET suffix == Suffix(file_path)
        dl_tmp == get_download_dirs(h) \o get_temp_dirs(h)
    IN  IF ~st.ok THEN "skip"
        ELSE IF is_under_whitelist(file_path) THEN "skipped"
        ELSE IF age_seconds # NoAge /\ (t - st.mtime) < age_seconds THEN None
        ELSE IF suffix \in potentially_dangerous_extensions
             THEN (IF InAnyDir(file_path, dl_tmp) THEN "harmful" ELSE "skipped")
        ELSE IF suffix \in suspicious_script_extensions
             THEN (IF InAnyDir(file_path, dl_tmp) THEN "suspicious" ELSE None)
        ELSE IF suffix \in junk_extensions
             THEN (IF size_threshold_bytes # 0 /\ st.size < size_threshold_bytes
                   THEN None ELSE "junk")
        ELSE IF size_threshold_bytes # 0
                /\ st.size >= Max(size_threshold_bytes, LargeFloor)
             THEN (IF InAnyDir(file_path, dl_tmp) THEN "large"
                   ELSE IF InAnyDir(file_path, get_browser_cache_dirs(h)) THEN "junk"
                   ELSE None)
        ELSE None

----------------------------------------------------------------------------
(* The filesystem and its environment *)

DaySeconds == 86400

Now0 == 10 * DaySeconds

FileA == TMP \o <<"a.log">>
FileExe(h) == DownloadDir(h) \o <<"S.EXE">>
FileCache(h) == MozDir(h) \o <<"c.log">>
FileHosts == ETC \o <<"hosts">>
FileGone == TMP \o <<"o.tmp">>

Files(h) == {FileA, FileExe(h), FileCache(h), FileHosts}

FileNames == {"a.log", "c.log", "o.tmp", "S.EXE", "s.exe", "r.sh", "big.iso", "hosts"}

IsFilePath(p) == p # ROOT /\ p[Len(p)] \in FileNames

\* the cache file is one second short of a day old, the others are older
InitialMeta(h) ==
    [f \in Files(h) |->
        IF f = FileCache(h) THEN [mtime |-> Now0 - DaySeconds + 1, size |-> 2048]
        ELSE IF f = FileA THEN [mtime |-> Now0 - 2 * DaySeconds, size |-> 2048]
        ELSE [mtime |-> Now0 - 9 * DaySeconds, size |-> 4096]]

\* os.stat(p)
Stat(p) ==
    IF p \in exists /\ p \notin unreadable /\ p \in DOMAIN meta
    THEN [ok |-> TRUE, mtime |-> meta[p].mtime, size |-> meta[p].size]
    ELSE StatFail

EnvMay == envSteps < MaxEnv

\* the clock advances by a second
Tick ==
    /\ EnvMay
    /\ now' = now + 1
    /\ envSteps' = envSteps + 1
    /\ UNCHANGED <<home, exists, unreadable, locked, meta, cls, cl, sc, op, db>>

\* another process removes a file
ExtRemove ==
    /\ EnvMay
    /\ \E f \in Files(home) \cap exists :
        /\ exists' = exists \ {f}
    /\ envSteps' = envSteps + 1
    /\ UNCHANGED <<home, unreadable, locked, meta, now, cls, cl, sc, op, db>>

\* a file's metadata becomes unreadable: it is still listed and os.stat raises
ExtChmod ==
    /\ EnvMay
    /\ \E f \in (Files(home) \cap exists) \ unreadable :
        /\ unreadable' = unreadable \cup {f}
    /\ envSteps' = envSteps + 1
    /\ UNCHANGED <<home, exists, locked, meta, now, cls, cl, sc, op, db>>

\* a file comes into use or loses write permission: removing it raises
ExtLock ==
    /\ EnvMay
    /\ \E f \in (Files(home) \cap exists) \ locked :
        /\ locked' = locked \cup {f}
    /\ envSteps' = envSteps + 1
    /\ UNCHANGED <<home, exists, unreadable, meta, now, cls, cl, sc, op, db>>

\* another process rewrites a file, which grows past 20 MiB
ExtWrite ==
    /\ EnvMay
    /\ \E f \in Files(home) \cap exists :
        /\ meta' = [meta EXCEPT ![f] = [mtime |-> now, size |-> LargeFloor]]
    /\ envSteps' = envSteps + 1
    /\ UNCHANGED <<home, exists, unreadable, locked, now, cls, cl, sc, op, db>>

----------------------------------------------------------------------------
(* A direct call of Scanner._classify_file *)

\* the paths _classify_file is called with
ClassifyPaths(h) ==
    Files(h) \cup {OPT \o <<"s.exe">>, TMP \o <<"r.sh">>, VAR \o <<"tmp", "o.tmp">>,
                   ETC, MozDir(h) \o <<"big.iso">>, OPT \o <<"big.iso">>, FileGone}

MTimes == {Now0 - 2 * DaySeconds, Now0 - DaySeconds, Now0 - DaySeconds + 1, Now0}

Sizes == {0, 512, 2048, LargeFloor}

\* what os.stat may answer
StatOutcomes == {StatFail} \cup [ok : {TRUE}, mtime : MTimes, size : Sizes]

AgeOptions == {NoAge, 0, DaySeconds}

SizeOptions == {0, 1024}

NoCall == [called |-> FALSE]

\* the classifier keeps no state: one call is followed
ClassifyCall ==
    /\ ~cls.called
    /\ \E p \in ClassifyPaths(home), st \in StatOutcomes, a \in AgeOptions, z \in SizeOptions :
        cls' = [called |-> TRUE, path |-> p, st |-> st, age_seconds |-> a,
                size_threshold_bytes |-> z, t |-> now,
                result |-> classify_file(home, p, st, now, a, z)]
    /\ UNCHANGED <<home, exists, unreadable, locked, meta, now, envSteps, cl, sc, op, db>>

----------------------------------------------------------------------------
(* Cleaner.clean_paths *)

\* os.path.exists(p)
path_exists(p, ex) == p \in ex

\* os.path.isdir(p)
is_dir(p, ex) == p \in ex /\ ~IsFilePath(p)

Below(p, ex) == {q \in ex : q # p /\ IsPrefix(p, q)}

\* os.walk(p, topdown=False) with the removals of its body: every file of a
\* directory, then its emptied subdirectories, the deepest directories first
RECURSIVE BottomUp(_)
BottomUp(nodes) ==
    IF nodes = {} THEN <<>>
    ELSE LET deepest == {q \in nodes : \A r \in nodes : Len(r) <= Len(q)}
             files == {q \in deepest : IsFilePath(q)}
             q == IF files # {} THEN CHOOSE x \in files : TRUE
                  ELSE CHOOSE x \in deepest : TRUE
         IN  <<q>> \o BottomUp(nodes \ {q})

\* os.remove / os.rmdir along order: [ok, exists]; a locked file raises and
\* what was removed before it stays removed
RECURSIVE RemoveAll(_, _, _)
RemoveAll(order, ex, lk) ==
    IF order = <<>> THEN [ok |-> TRUE, exists |-> ex]
    ELSE IF Head(order) \in lk THEN [ok |-> FALSE, exists |-> ex]
    ELSE RemoveAll(Tail(order), ex \ {Head(order)}, lk)

\* the permanent delete of lines 57-66
permanent_delete(p, ex, lk) ==
    IF is_dir(p, ex)
    THEN RemoveAll(BottomUp(Below(p, ex)) \o <<p>>, ex, lk)
    ELSE RemoveAll(<<p>>, ex, lk)

\* send2trash(p): the path and all below it move to the trash, or it raises
send2trash(p, ex, lk) ==
    IF p \in lk THEN [ok |-> FALSE, exists |-> ex]
    ELSE [ok |-> TRUE, exists |-> (ex \ Below(p, ex)) \ {p}]

Raised == "OSError"

\* the turn without the dry_run branch of lines 45-49
clean_one_no_dry_run(use_trash, dry_run, force, p, ex, lk) ==
    IF ~path_exists(p, ex)
    THEN [exists |-> ex, results |-> <<>>, errors |-> <<<<p, "NotFound">>>>, raised |-> FALSE]
    ELSE LET r == IF use_trash THEN send2trash(p, ex, lk) ELSE permanent_delete(p, ex, lk)
         IN  IF r.ok
             THEN [exists |-> r.exists,
                   results |-> <<<<p, IF use_trash THEN "trashed" ELSE "deleted">>>>,
                   errors |-> <<>>, raised |-> FALSE]
             ELSE [exists |-> r.exists, results |-> <<>>,
                   errors |-> <<<<p, Raised>>>>, raised |-> FALSE]

\* the turn that deletes permanently without asking for force
clean_one_no_force(use_trash, dry_run, force, p, ex, lk) ==
    IF ~path_exists(p, ex)
    THEN [exists |-> ex, results |-> <<>>, errors |-> <<<<p, "NotFound">>>>, raised |-> FALSE]
    ELSE IF dry_run
    THEN [exists |-> ex,
          results |-> <<<<p, IF use_trash THEN "trashed"
                             ELSE IF force THEN "deleted"
                             ELSE "would_delete_but_no_trash">>>>,
          errors |-> <<>>, raised |-> FALSE]
    ELSE LET r == IF use_trash THEN send2trash(p, ex, lk) ELSE permanent_delete(p, ex, lk)
         IN  IF r.ok
             THEN [exists |-> r.exists,
                   results |-> <<<<p, IF use_trash THEN "trashed" ELSE "deleted">>>>,
                   errors |-> <<>>, raised |-> FALSE]
             ELSE [exists |-> r.exists, results |-> <<>>,
                   errors |-> <<<<p, Raised>>>>, raised |-> FALSE]

\* the turn without the try/except of lines 40 and 70-71: a failed removal
\* leaves the loop
clean_one_no_except(use_trash, dry_run, force, p, ex, lk) ==
    IF ~path_exists(p, ex)
    THEN [exists |-> ex, results |-> <<>>, errors |-> <<<<p, "NotFound">>>>, raised |-> FALSE]
    ELSE IF dry_run
    THEN [exists |-> ex,
          results |-> <<<<p, IF use_trash THEN "trashed"
                             ELSE IF force THEN "deleted"
                             ELSE "would_delete_but_no_trash">>>>,
          errors |-> <<>>, raised |-> FALSE]
    ELSE IF use_trash \/ force
    THEN LET r == IF use_trash THEN send2trash(p, ex, lk) ELSE permanent_delete(p, ex, lk)
         IN  IF r.ok
             THEN [exists |-> r.exists,
                   results |-> <<<<p, IF use_trash THEN "trashed" ELSE "deleted">>>>,
                   errors |-> <<>>, raised |-> FALSE]
             ELSE [exists |-> r.exists, results |-> <<>>, errors |-> <<>>, raised |-> TRUE]
    ELSE [exists |-> ex, results |-> <<>>,
          errors |-> <<<<p, "send2trash_not_available">>>>, raised |-> FALSE]

\* One turn of the loop of clean_paths, for path p: what it leaves of the
\* filesystem, the entry it appends to results or to errors, and whether an
\* exception leaves the loop.
clean_one(use_trash, dry_run, force, p, ex, lk) ==
    IF ~path_exists(p, ex)
    THEN [exists |-> ex, results |-> <<>>, errors |-> <<<<p, "NotFound">>>>, raised |-> FALSE]
    ELSE IF dry_run
    THEN [exists |-> ex,
          results |-> <<<<p, IF use_trash THEN "trashed"
                             ELSE IF force THEN "deleted"
                             ELSE "would_delete_but_no_trash">>>>,
          errors |-> <<>>, raised |-> FALSE]
    ELSE IF use_trash
    THEN LET r == send2trash(p, ex, lk)
         IN  IF r.ok
             THEN [exists |-> r.exists, results |-> <<<<p, "trashed">>>>,
                   errors |-> <<>>, raised |-> FALSE]
             ELSE [exists |-> r.exists, results |-> <<>>,
                   errors |-> <<<<p, Raised>>>>, raised |-> FALSE]
    ELSE IF force
    THEN LET r == permanent_delete(p, ex, lk)
         IN  IF r.ok
             THEN [exists |-> r.exists, results |-> <<<<p, "deleted">>>>,
                   errors |-> <<>>, raised |-> FALSE]
             ELSE [exists |-> r.exists, results |-> <<>>,
                   errors |-> <<<<p, Raised>>>>, raised |-> FALSE]
    ELSE [exists |-> ex, results |-> <<>>,
          errors |-> <<<<p, "send2trash_not_available">>>>, raised |-> FALSE]

\* the paths a caller hands to clean_paths: files, directories, a path that
\* is not there
CleanPathsOf(h) == {FileA, FileCache(h), FileHosts, MozDir(h), FileGone}

PathLists(h) == UNION {[1..n -> CleanPathsOf(h)] : n \in 0..MaxPaths}

NoCleaner ==
    [use_trash |-> FALSE, pc |-> "absent", paths |-> <<>>, dry_run |-> TRUE, force |-> FALSE,
     i |-> 1, results |-> <<>>, errors |-> <<>>]

\* Cleaner(): use_trash is whether send2trash could be imported (lines 14-22)
CleanerNew ==
    /\ cl.pc = "absent"
    /\ \E t \in BOOLEAN : cl' = [cl EXCEPT !.use_trash = t, !.pc = "idle"]
    /\ UNCHANGED <<home, exists, unreadable, locked, meta, now, envSteps, cls, sc, op, db>>

\* clean_paths is called: lines 36-37.  The call keeps nothing for a later
\* call, so one call is followed.
CleanBegin ==
    /\ cl.pc = "idle"
    /\ \E ps \in PathLists(home), d \in BOOLEAN, f \in BOOLEAN :
        cl' = [cl EXCEPT !.pc = "run", !.paths = ps, !.dry_run = d, !.force = f,
                         !.i = 1, !.results = <<>>, !.errors = <<>>]
    /\ UNCHANGED <<home, exists, unreadable, locked, meta, now, envSteps, cls, sc, op, db>>

\* one turn of the loop: lines 39-71
CleanStep ==
    /\ cl.pc = "run"
    /\ cl.i <= Len(cl.paths)
    /\ LET r == clean_one(cl.use_trash, cl.dry_run, cl.force, cl.paths[cl.i], exists, locked)
       IN  /\ exists' = r.exists
           /\ cl' = [cl EXCEPT !.pc = IF r.raised THEN "raised" ELSE "run",
                               !.i = cl.i + 1,
                               !.results = cl.results \o r.results,
                               !.errors = cl.errors \o r.errors]
    /\ UNCHANGED <<home, unreadable, locked, meta, now, envSteps, cls, sc, op, db>>

\* return results, errors: line 73
CleanReturn ==
    /\ cl.pc = "run"
    /\ cl.i > Len(cl.paths)
    /\ cl' = [cl EXCEPT !.pc = "done"]
    /\ UNCHANGED <<home, exists, unreadable, locked, meta, now, envSteps, cls, sc, op, db>>

----------------------------------------------------------------------------
(* Scanner._walk_and_collect and Scanner.scan_all *)

Categories == {"junk", "large", "suspicious", "harmful", "skipped"}

\* {"junk": [], "large": [], "suspicious": [], "harmful": [], "skipped": []}
EmptyFound == [c \in Categories |-> <<>>]

NoLimits == [c \in {} |-> 0]

\* os.walk(folder), top down: the files below folder, those of a directory
\* before those of its subdirectories
RECURSIVE TopDown(_)
TopDown(nodes) ==
    IF nodes = {} THEN <<>>
    ELSE LET q == CHOOSE x \in nodes : \A r \in nodes : Len(x) <= Len(r)
         IN  <<q>> \o TopDown(nodes \ {q})

WalkFiles(folder, ex) == TopDown({q \in Below(folder, ex) : IsFilePath(q)})

\* the append without the limit of lines 221-223
store_no_cap(found, cat, file_path, category_limits) ==
    LET f1 == IF cat \in DOMAIN found THEN found ELSE found @@ (cat :> <<>>)
    IN  [f1 EXCEPT ![cat] = Append(@, file_path)]

\* lines 217-224: the category's list, with file_path stored unless the cap is reached
store(found, cat, file_path, category_limits) ==
    LET f1 == IF cat \in DOMAIN found THEN found ELSE found @@ (cat :> <<>>)
    IN  IF cat \in DOMAIN category_limits /\ category_limits[cat] # 0
           /\ Len(f1[cat]) >= category_limits[cat]
        THEN f1
        ELSE [f1 EXCEPT ![cat] = Append(@, file_path)]

\* lines 211-224, for the files of one folder in the order of the walk
RECURSIVE collect(_, _, _, _, _, _)
collect(files, found, h, t, o, statOf) ==
    IF files = <<>> THEN found
    ELSE LET file_path == Head(files)
             cat == classify_file(h, file_path, statOf[file_path], t,
                                  o.age_seconds, o.size_threshold_bytes)
         IN  collect(Tail(files),
                     IF cat # None THEN store(found, cat, file_path, o.category_limits)
                     ELSE found,
                     h, t, o, statOf)

\* list(dict.fromkeys(folders)): the first occurrence of each folder, in order
RECURSIVE Dedupe(_)
Dedupe(s) ==
    IF s = <<>> THEN <<>>
    ELSE LET rest == Dedupe(SubSeq(s, 1, Len(s) - 1))
             x == s[Len(s)]
         IN  IF x \in Range(rest) THEN rest ELSE Append(rest, x)

\* lines 257-266
scan_folders(h, o, ex) ==
    ExistingOf(Dedupe(get_temp_dirs(h)
                      \o (IF o.include_browser_cache THEN get_browser_cache_dirs(h) ELSE <<>>)
                      \o (IF o.include_downloads THEN get_download_dirs(h) ELSE <<>>)
                      \o o.extra_scan_dirs), ex)

\* lines 279-284: os.path.getsize(p) summed, a file whose size cannot be read adding nothing
RECURSIVE SumSizes(_)
SumSizes(files) ==
    IF files = <<>> THEN 0
    ELSE (IF Stat(Head(files)).ok THEN Stat(Head(files)).size ELSE 0)
         + SumSizes(Tail(files))

RECURSIVE SumOver(_, _)
SumOver(f, keys) ==
    IF keys = {} THEN 0
    ELSE LET k == CHOOSE x \in keys : TRUE IN f[k] + SumOver(f, keys \ {k})

\* lines 272-314; the sizes are kept in bytes (_human is a function of them)
summary(found, folders, dry_run) ==
    LET counts == [c \in DOMAIN found |-> Len(found[c])]
        sizes == [c \in DOMAIN found |-> SumSizes(found[c])]
    IN  [counts |-> counts, sizes |-> sizes, lists |-> found,
         total_files |-> SumOver(counts, DOMAIN counts),
         total_size |-> SumOver(sizes, DOMAIN sizes),
         scanned_folders |-> folders, dry_run |-> dry_run]

\* the defaults of scan_all: lines 228-234
DefaultOptions ==
    [age_seconds |-> DaySeconds, size_threshold_bytes |-> 1024, include_downloads |-> FALSE,
     include_browser_cache |-> TRUE, extra_scan_dirs |-> <<>>, category_limits |-> NoLimits,
     dry_run |-> TRUE]

\* the call of Dashboard.scan_files: src/ui/dashboard.py lines 118-124
DashboardOptions ==
    [DefaultOptions EXCEPT !.age_seconds = 84600, !.size_threshold_bytes = 1,
                           !.include_downloads = TRUE]

\* the calls of scan_all that are followed
ScanOptions ==
    {DefaultOptions,
     DashboardOptions,
     [DefaultOptions EXCEPT !.age_seconds = NoAge, !.size_threshold_bytes = 0],
     [DefaultOptions EXCEPT !.include_browser_cache = FALSE],
     [DefaultOptions EXCEPT !.extra_scan_dirs = <<ETC>>],
     [DashboardOptions EXCEPT !.category_limits = [c \in {"junk"} |-> 1]]}

NoReport == [none |-> TRUE]

\* scan_all without the reset of line 253
scan_no_reset == sc.found

\* line 253: self._found starts empty in every scan
scan_reset == EmptyFound

\* what a scan ran on: the options, and the filesystem and the clock when
\* they stayed the same from the call to the return
FsState == <<exists, unreadable, meta>>

NoStamp == [valid |-> FALSE]

Stamp(o) == [valid |-> TRUE, opts |-> o, fs |-> FsState, fsSame |-> TRUE,
             t |-> now, tSame |-> TRUE]

Restamp(st) ==
    [st EXCEPT !.fsSame = @ /\ st.fs = FsState, !.tSame = @ /\ st.t = now]

ScannerIdle ==
    [found |-> EmptyFound, pc |-> "idle", opts |-> None, folders |-> <<>>, k |-> 1,
     stamp |-> NoStamp, report |-> NoReport, reportStamp |-> NoStamp,
     repeated |-> FALSE]

\* scan_all is called: lines 252-266
ScanBegin ==
    /\ sc.pc = "idle"
    /\ \E o \in ScanOptions :
        sc' = [sc EXCEPT !.found = scan_reset, !.pc = "walk", !.opts = o,
                         !.folders = scan_folders(home, o, exists), !.k = 1,
                         !.stamp = Stamp(o)]
    /\ UNCHANGED <<home, exists, unreadable, locked, meta, now, envSteps, cls, cl, op, db>>

\* one folder of _walk_and_collect: lines 207-224
WalkStep ==
    /\ sc.pc = "walk"
    /\ sc.k <= Len(sc.folders)
    /\ LET folder == sc.folders[sc.k]
           files == IF folder \in exists THEN WalkFiles(folder, exists) ELSE <<>>
           statOf == [f \in Range(files) |-> Stat(f)]
       IN  sc' = [sc EXCEPT !.found = collect(files, sc.found, home, now, sc.opts, statOf),
                            !.k = sc.k + 1,
                            !.stamp = Restamp(sc.stamp)]
    /\ UNCHANGED <<home, exists, unreadable, locked, meta, now, envSteps, cls, cl, op, db>>

\* the summary is built and returned: lines 270-314
ScanReturn ==
    /\ sc.pc = "walk"
    /\ sc.k > Len(sc.folders)
    /\ LET st == Restamp(sc.stamp)
           rep == summary(sc.found, sc.folders, sc.opts.dry_run)
       IN  sc' = [sc EXCEPT !.pc = "idle", !.report = rep, !.reportStamp = st,
                            !.stamp = st,
                            !.repeated = (sc.reportStamp = st /\ st.fsSame /\ st.tSame)]
    /\ UNCHANGED <<home, exists, unreadable, locked, meta, now, envSteps, cls, cl, op, db>>

----------------------------------------------------------------------------
(* Optimizer.optimize_disk *)

SmallFile == 1024

\* Optimizer._get_whitelist_paths: the entries that exist
opt_whitelist_paths(h) == {p \in get_whitelist_paths : p \in DirsOnDisk(h)}

\* Optimizer._get_temp_dirs
opt_temp_dirs(h) == ExistingOf(<<TMP, CacheDir(h)>>, DirsOnDisk(h))

\* the check that lets every path through
is_safe_path_always(h, path) == TRUE

is_safe_path(h, path) ==
    ~\E p \in opt_whitelist_paths(h) : path = p \/ StartsWithSep(path, p)

\* lines 98-110 for one file: whether it is removed
optimize_removes(h, fpath, st, t, age_seconds, delete_small_files, lk) ==
    /\ is_safe_path(h, fpath)
    /\ st.ok
    /\ ~(t - st.mtime < age_seconds)
    /\ ~(~delete_small_files /\ st.size < SmallFile)
    /\ fpath \notin lk

\* lines 96-110 for the files of one folder, in the order of the walk
RECURSIVE optimize_files(_, _, _, _, _, _, _)
optimize_files(files, o, h, t, ex, unr, lk) ==
    IF files = <<>> THEN [exists |-> ex, removed |-> <<>>]
    ELSE LET fpath == Head(files)
             st == IF fpath \in ex /\ fpath \notin unr /\ fpath \in DOMAIN meta
                   THEN [ok |-> TRUE, mtime |-> meta[fpath].mtime, size |-> meta[fpath].size]
                   ELSE StatFail
             rm == optimize_removes(h, fpath, st, t, o.max_age_days * DaySeconds,
                                    o.delete_small_files, lk)
             rest == optimize_files(Tail(files), o, h, t,
                                    IF rm THEN ex \ {fpath} ELSE ex, unr, lk)
         IN  [exists |-> rest.exists,
              removed |-> (IF rm THEN <<fpath>> ELSE <<>>) \o rest.removed]

OptOptions == [max_age_days : {0, 1, 7}, delete_small_files : BOOLEAN]

OptimizerIdle ==
    [pc |-> "idle", opts |-> None, k |-> 1, removed_files |-> <<>>]

\* optimize_disk is called: lines 91-92
OptBegin ==
    /\ op.pc # "walk"
    /\ \E o \in OptOptions :
        op' = [op EXCEPT !.pc = "walk", !.opts = o, !.k = 1, !.removed_files = <<>>]
    /\ UNCHANGED <<home, exists, unreadable, locked, meta, now, envSteps, cls, cl, sc, db>>

\* one folder of the loop: lines 94-110
OptStep ==
    /\ op.pc = "walk"
    /\ op.k <= Len(opt_temp_dirs(home))
    /\ LET folder == opt_temp_dirs(home)[op.k]
           r == optimize_files(WalkFiles(folder, exists), op.opts, home, now,
                               exists, unreadable, locked)
       IN  /\ exists' = r.exists
           /\ op' = [op EXCEPT !.k = op.k + 1,
                               !.removed_files = op.removed_files \o r.removed]
    /\ UNCHANGED <<home, unreadable, locked, meta, now, envSteps, cls, cl, sc, db>>

\* return removed_files: line 111
OptReturn ==
    /\ op.pc = "walk"
    /\ op.k > Len(opt_temp_dirs(home))
    /\ op' = [op EXCEPT !.pc = "done"]
    /\ UNCHANGED <<home, exists, unreadable, locked, meta, now, envSteps, cls, cl, sc, db>>

----------------------------------------------------------------------------
(* Dashboard.scan_files and Dashboard.clear_junk_files *)

\* the texts of cleaner_log, those of a scan and of a deletion without their
\* counts and samples
LogStart == "Press 'Scan' to detect junk files..."
LogScanning == "Scanning for junk files..."
LogScanned == "Scan Completed!"
LogDeleting == "Deleting junk files..."
LogNoJunk == "No junk files found. Scan first."
LogDeleted == "Deleted junk files successfully!"

\* Dashboard(root): a new Scanner, which has no last_scan yet
DashboardIdle ==
    [pc |-> "idle", last_scan |-> NoReport, junk_files |-> <<>>, i |-> 1,
     deleted_files |-> <<>>, log |-> LogStart]

\* summary['lists'].get('junk'), [] standing for a missing key
junk_of(last_scan) ==
    IF "junk" \in DOMAIN last_scan.lists THEN last_scan.lists["junk"] ELSE <<>>

\* the list of the junk and of the harmful files of a report
junk_and_harmful_of(last_scan) ==
    (IF "junk" \in DOMAIN last_scan.lists THEN last_scan.lists["junk"] ELSE <<>>)
        \o (IF "harmful" \in DOMAIN last_scan.lists THEN last_scan.lists["harmful"] ELSE <<>>)

\* line 144: the files clear_junk_files goes through
junk_files_of(last_scan) == junk_of(last_scan)

\* scan_files up to its call of scan_all: lines 115-124 and scanner.py lines
\* 252-266.  root.update() runs the pending handlers before the handler reads
\* or writes anything, so a handler starts when no other is running.
DashScanBegin ==
    /\ db.pc = "idle"
    /\ sc.pc = "idle"
    /\ sc' = [sc EXCEPT !.found = scan_reset, !.pc = "walk", !.opts = DashboardOptions,
                        !.folders = scan_folders(home, DashboardOptions, exists), !.k = 1,
                        !.stamp = Stamp(DashboardOptions)]
    /\ db' = [db EXCEPT !.pc = "scan", !.log = LogScanning]
    /\ UNCHANGED <<home, exists, unreadable, locked, meta, now, envSteps, cls, cl, op>>

\* scan_all has returned: lines 125-133
DashScanEnd ==
    /\ db.pc = "scan"
    /\ sc.pc = "idle"
    /\ db' = [db EXCEPT !.pc = "idle", !.last_scan = sc.report, !.log = LogScanned]
    /\ UNCHANGED <<home, exists, unreadable, locked, meta, now, envSteps, cls, cl, sc, op>>

\* clear_junk_files up to its loop: lines 136-145
DashClearBegin ==
    /\ db.pc = "idle"
    /\ sc.pc = "idle"
    /\ LET last_scan == db.last_scan
       IN  IF "lists" \notin DOMAIN last_scan \/ junk_of(last_scan) = <<>>
           THEN db' = [db EXCEPT !.log = LogNoJunk]
           ELSE db' = [db EXCEPT !.pc = "clear", !.junk_files = junk_files_of(last_scan),
                                 !.i = 1, !.deleted_files = <<>>, !.log = LogDeleting]
    /\ UNCHANGED <<home, exists, unreadable, locked, meta, now, envSteps, cls, cl, sc, op>>

\* one turn of the loop: lines 147-153.  os.remove raises for a file that
\* cannot be removed, and the loop goes on.
DashClearStep ==
    /\ db.pc = "clear"
    /\ db.i <= Len(db.junk_files)
    /\ LET f == db.junk_files[db.i]
           removes == f \in exists /\ f \notin locked
       IN  /\ exists' = IF removes THEN exists \ {f} ELSE exists
           /\ db' = [db EXCEPT !.i = db.i + 1,
                               !.deleted_files = IF removes THEN Append(@, f) ELSE @]
    /\ UNCHANGED <<home, unreadable, locked, meta, now, envSteps, cls, cl, sc, op>>

\* the loop is over: lines 155-159
DashClearEnd ==
    /\ db.pc = "clear"
    /\ db.i > Len(db.junk_files)
    /\ db' = [db EXCEPT !.pc = "idle", !.log = LogDeleted]
    /\ UNCHANGED <<home, exists, unreadable, locked, meta, now, envSteps, cls, cl, sc, op>>

----------------------------------------------------------------------------
(* Specifications *)

Init ==
    /\ home \in Homes
    /\ exists = DirsOnDisk(home) \cup Files(home)
    /\ unreadable = {}
    /\ locked = {}
    /\ meta = InitialMeta(home)
    /\ now = Now0
    /\ envSteps = 0
    /\ cls = NoCall
    /\ cl = NoCleaner
    /\ sc = ScannerIdle
    /\ op = OptimizerIdle
    /\ db = DashboardIdle

\* direct calls of the classifier, at different times
NextClassify == ClassifyCall \/ Tick

SpecClassify == Init /\ [][NextClassify]_vars

\* the Cleaner, while other processes remove and lock files
NextClean == CleanerNew \/ CleanBegin \/ CleanStep \/ CleanReturn \/ ExtRemove \/ ExtLock

SpecClean == Init /\ [][NextClean]_vars

\* the Scanner, while the clock advances and other processes change files
NextScan == ScanBegin \/ WalkStep \/ ScanReturn \/ Tick \/ ExtRemove \/ ExtChmod

SpecScan == Init /\ [][NextScan]_vars

\* the Optimizer, while the clock advances and other processes change files
NextOpt == OptBegin \/ OptStep \/ OptReturn \/ Tick \/ ExtChmod \/ ExtLock \/ ExtWrite

SpecOpt == Init /\ [][NextOpt]_vars

\* the Dashboard's Cleaner tab, while the clock advances and other processes
\* change files
NextDash ==
    \/ DashScanBegin \/ WalkStep \/ ScanReturn \/ DashScanEnd
    \/ DashClearBegin \/ DashClearStep \/ DashClearEnd
    \/ Tick \/ ExtRemove \/ ExtChmod \/ ExtLock \/ ExtWrite

SpecDash == Init /\ [][NextDash]_vars

Next == NextClassify \/ NextClean \/ NextScan \/ NextOpt \/ NextDash

Spec == Init /\ [][Next]_vars

----------------------------------------------------------------------------
(* Properties of the classifier (SpecClassify) *)

ClsFresh ==
    /\ cls.called
    /\ cls.st.ok
    /\ cls.age_seconds # NoAge
    /\ (cls.t - cls.st.mtime) < cls.age_seconds

\* C1: whitelist supremacy.  A file whose path equals a whitelist entry or
\* lies under one is classified 'skipped', whatever its extension, age and
\* size and whatever os.stat answered.
C1_WhitelistSupremacy ==
    (cls.called /\ is_under_whitelist(cls.path)) => cls.result = "skipped"

\* C6 as stated: every file younger than age_seconds gets no category.
C6_AgeGateEveryFile == ClsFresh => cls.result = None

\* C6: age gate.  A file that is not under a whitelist entry and is younger
\* than age_seconds gets no category, whatever its extension, size and place.
C6_AgeGate == (ClsFresh /\ ~is_under_whitelist(cls.path)) => cls.result = None

\* a fresh junk-extension file in a temp directory, left alone
C6_Witness ==
    /\ ClsFresh
    /\ cls.path = FileA
    /\ cls.st.size = LargeFloor
    /\ cls.size_threshold_bytes = 1024
    /\ cls.result = None

\* the call's file had its metadata read, is not under a whitelist entry and
\* is not younger than age_seconds
ClsPassedGates ==
    /\ cls.called
    /\ cls.st.ok
    /\ ~is_under_whitelist(cls.path)
    /\ (cls.age_seconds = NoAge \/ (cls.t - cls.st.mtime) >= cls.age_seconds)

\* the path is a download or temp directory of the host, or lies below one
InDownloadOrTemp(h, p) ==
    \E d \in {DownloadDir(h), TMP, CacheDir(h)} : IsPrefix(d, p)

\* C12: the dangerous-extension rule and its precedence.  A file that is not
\* under the whitelist and passes the age gate, with a dangerous extension in
\* any letter case, is 'harmful' inside a download or temp directory and
\* 'skipped' elsewhere, whatever its size: never 'junk', never 'large'.
C12_DangerousExtension ==
    (ClsPassedGates /\ Suffix(cls.path) \in potentially_dangerous_extensions)
        => cls.result = IF InDownloadOrTemp(home, cls.path) THEN "harmful" ELSE "skipped"

\* an old S.EXE of 20 MiB in ~/Downloads, with a size threshold: 'harmful'
C12_Witness ==
    /\ ClsPassedGates
    /\ cls.path = FileExe(home)
    /\ cls.age_seconds = DaySeconds
    /\ cls.st.size = LargeFloor
    /\ cls.size_threshold_bytes = 1024
    /\ cls.result = "harmful"

----------------------------------------------------------------------------
(* Properties of the Cleaner (SpecClean) *)

\* a step of the model is a turn of the loop of clean_paths
CleanTurn == cl.pc = "run" /\ cl'.i = cl.i + 1

Entries(s) == {s[k] : k \in 1..Len(s)}

\* C2: a path under a whitelist entry is refused by clean_paths: a turn for
\* such a path removes no whitelisted path from the disk and reports no result.
C2_WhitelistNeverRemoved ==
    [][(CleanTurn /\ is_under_whitelist(cl.paths[cl.i]))
        => /\ \A q \in exists : is_under_whitelist(q) => q \in exists'
           /\ cl'.results = cl.results]_vars

\* C3: under dry_run a turn of clean_paths leaves the filesystem as it is,
\* whatever force and use_trash are.
C3_DryRunLeavesDisk ==
    [][(CleanTurn /\ cl.dry_run) => exists' = exists]_vars

\* a dry run with force and no trash has reported 'deleted', and the path is there
C3_Witness ==
    /\ cl.pc = "done"
    /\ cl.dry_run /\ cl.force /\ ~cl.use_trash
    /\ \E e \in Entries(cl.results) : e[2] = "deleted" /\ e[1] \in exists

\* C4: with no trash, dry_run=false and force=false a turn removes nothing,
\* reports no result and records 'send2trash_not_available' for a path that exists.
C4_FailsClosed ==
    [][(CleanTurn /\ ~cl.use_trash /\ ~cl.dry_run /\ ~cl.force)
        => /\ exists' = exists
           /\ cl.results = <<>> /\ cl'.results = <<>>
           /\ cl'.errors = Append(cl.errors,
                <<cl.paths[cl.i], IF cl.paths[cl.i] \in exists
                                  THEN "send2trash_not_available" ELSE "NotFound">>)]_vars

\* the call has returned with the error recorded for every path, all of them there
C4_Witness ==
    /\ cl.pc = "done"
    /\ ~cl.use_trash /\ ~cl.dry_run /\ ~cl.force
    /\ Len(cl.paths) = MaxPaths
    /\ \A k \in 1..Len(cl.paths) :
        /\ cl.paths[k] \in exists
        /\ cl.errors[k] = <<cl.paths[k], "send2trash_not_available">>

\* C5: every turn appends exactly one entry, keyed by its path: 'NotFound' in
\* errors for a path that is not there, else one result or one error; the
\* next path is then processed, no exception leaves the loop, and the call
\* returns with one entry for each path.
C5_PartialFailureIsolation ==
    /\ [][CleanTurn =>
            LET p == cl.paths[cl.i]
            IN  /\ cl'.pc = "run"
                /\ IF p \notin exists
                   THEN /\ cl'.errors = Append(cl.errors, <<p, "NotFound">>)
                        /\ cl'.results = cl.results
                   ELSE \/ /\ cl'.errors = cl.errors
                           /\ Len(cl'.results) = Len(cl.results) + 1
                           /\ SubSeq(cl'.results, 1, Len(cl.results)) = cl.results
                           /\ cl'.results[Len(cl'.results)][1] = p
                        \/ /\ cl'.results = cl.results
                           /\ Len(cl'.errors) = Len(cl.errors) + 1
                           /\ SubSeq(cl'.errors, 1, Len(cl.errors)) = cl.errors
                           /\ cl'.errors[Len(cl'.errors)][1] = p
                           /\ cl'.errors[Len(cl'.errors)][2] # "NotFound"]_vars
    /\ [](cl.pc # "raised")
    /\ [](cl.pc = "done" => Len(cl.results) + Len(cl.errors) = Len(cl.paths))

\* the cache file was removed by another process during the batch: it is the
\* one 'NotFound', and the other path was deleted
C5_Witness ==
    /\ cl.pc = "done"
    /\ ~cl.dry_run /\ cl.force /\ ~cl.use_trash
    /\ cl.paths = <<FileA, FileCache(home)>>
    /\ cl.results = << <<FileA, "deleted">> >>
    /\ cl.errors = << <<FileCache(home), "NotFound">> >>

----------------------------------------------------------------------------
(* Properties of the Scanner (SpecScan) *)

\* a step of the model is the return of scan_all
ScanReturns == sc.pc = "walk" /\ sc'.pc = "idle"

\* the new report and the one before it come from the same options and the
\* same filesystem, unchanged through both scans
SameFiles(a, b) ==
    /\ a.valid /\ b.valid
    /\ a.opts = b.opts
    /\ a.fsSame /\ b.fsSame /\ a.fs = b.fs

\* and the clock read the same through both
SameClock(a, b) == a.tSame /\ b.tSame /\ a.t = b.t

\* C7 as stated: two scans of the same Scanner with identical filesystem
\* state and identical options return identical reports.
C7_IdempotentSameFiles ==
    [][(ScanReturns /\ SameFiles(sc.reportStamp, sc'.reportStamp))
        => sc'.report = sc.report]_vars

\* C7: two scans of the same Scanner with identical filesystem state,
\* identical options and the same clock reading return identical reports:
\* nothing of the first scan is carried into the second.
C7_IdempotentDryRun ==
    [][(ScanReturns /\ SameFiles(sc.reportStamp, sc'.reportStamp)
                    /\ SameClock(sc.reportStamp, sc'.reportStamp))
        => sc'.report = sc.report]_vars

\* a second scan has returned after a first with the same inputs, with files found
C7_Witness ==
    /\ sc.repeated
    /\ sc.pc = "idle"
    /\ sc.report.total_files > 1

\* C8: category disjointness.  No path is in the lists of two categories.
C8_CategoryDisjoint ==
    \A c1 \in DOMAIN sc.found : \A c2 \in DOMAIN sc.found :
        c1 # c2 => Range(sc.found[c1]) \cap Range(sc.found[c2]) = {}

\* C10: unreadable metadata.  A file whose size or modification time cannot
\* be read is stored as 'skipped', so every key of the lists and counts of a
\* report is one of junk, large, suspicious, harmful, skipped.
C10_UnreadableIsSkipped ==
    /\ [][(sc.pc = "walk" /\ sc'.k = sc.k + 1) =>
            \A f \in unreadable \cap Range(WalkFiles(sc.folders[sc.k], exists)) :
                f \in Range(sc'.found["skipped"])]_vars
    /\ [](DOMAIN sc.found \subseteq Categories)
    /\ []("lists" \in DOMAIN sc.report =>
            /\ DOMAIN sc.report.lists \subseteq Categories
            /\ DOMAIN sc.report.counts \subseteq Categories)

\* a step of the model is the walk of one folder
WalkTurn == sc.pc = "walk" /\ sc'.k = sc.k + 1

\* the first limits[c] paths of s when c has a positive cap, else s
Capped(s, limits, c) ==
    IF c \in DOMAIN limits /\ limits[c] > 0 /\ Len(s) > limits[c]
    THEN SubSeq(s, 1, limits[c])
    ELSE s

\* no list of found is longer than the positive cap of its category
WithinCaps(found, limits) ==
    \A c \in DOMAIN limits \cap DOMAIN found : limits[c] > 0 => Len(found[c]) <= limits[c]

\* C13: the per-category cap.  At every point of the walk and in the returned
\* report, the list of a category with a positive cap holds at most cap paths;
\* the walk of a folder leaves in every category's list what was there
\* followed by the folder's files of that category in walk order, cut at the
\* cap: a file met after the cap is reached is not stored, and the other
\* categories' lists are what they would be without it.
C13_CategoryCap ==
    /\ [](sc.stamp.valid => WithinCaps(sc.found, sc.stamp.opts.category_limits))
    /\ []("lists" \in DOMAIN sc.report =>
            WithinCaps(sc.report.lists, sc.reportStamp.opts.category_limits))
    /\ [][WalkTurn =>
            LET folder == sc.folders[sc.k]
                files == IF folder \in exists THEN WalkFiles(folder, exists) ELSE <<>>
                catOf(f) == classify_file(home, f, Stat(f), now, sc.opts.age_seconds,
                                          sc.opts.size_threshold_bytes)
            IN  /\ DOMAIN sc.found \subseteq DOMAIN sc'.found
                /\ \A c \in DOMAIN sc'.found :
                      sc'.found[c] =
                        Capped((IF c \in DOMAIN sc.found THEN sc.found[c] ELSE <<>>)
                                 \o SelectSeq(files, LAMBDA f : catOf(f) = c),
                               sc.opts.category_limits, c)]_vars

\* with 'junk' capped at 1, the report holds the log of /tmp alone: the cache
\* file, old enough, readable and met twice later, is not stored, and the
\* executable of ~/Downloads met after it is
C13_Witness ==
    /\ sc.pc = "idle"
    /\ "lists" \in DOMAIN sc.report
    /\ "junk" \in DOMAIN sc.reportStamp.opts.category_limits
    /\ sc.reportStamp.opts.category_limits["junk"] = 1
    /\ envSteps = 0
    /\ ~is_under_whitelist(FileCache(home))
    /\ sc.report.lists["junk"] = <<FileA>>
    /\ sc.report.counts["junk"] = 1
    /\ sc.report.lists["harmful"] = <<FileExe(home)>>

\* a directory the walk of the folders visited so far has reached
WalkReached(d) ==
    /\ d \in exists /\ ~IsFilePath(d)
    /\ \E k \in 1..Len(sc.folders) : k < sc.k /\ IsPrefix(sc.folders[k], d)

\* C11: the walker prunes a protected subtree.  Once a directory reached by
\* the walk equals a whitelist entry, no file below it is classified, so none
\* is stored under any category.
C11_WalkerPrunes ==
    \A c \in DOMAIN sc.found : \A f \in Range(sc.found[c]) :
        ~\E d \in get_whitelist_paths : WalkReached(d) /\ d # f /\ IsPrefix(d, f)

\* a sequence without repetitions
NoDuplicates(s) == \A i \in 1..Len(s) : \A j \in 1..Len(s) : s[i] = s[j] => i = j

\* C14: no file is reported twice.  In a report returned by scan_all, each
\* path occurs at most once in its category's list, also when one scanned
\* folder lies inside another.
C14_ReportedOnce ==
    "lists" \in DOMAIN sc.report =>
        \A c \in DOMAIN sc.report.lists : NoDuplicates(sc.report.lists[c])

----------------------------------------------------------------------------
(* Properties of the Optimizer (SpecOpt) *)

UnderOptWhitelist(q) ==
    \E p \in opt_whitelist_paths(home) : q = p \/ (p # ROOT /\ Len(p) < Len(q) /\ IsPrefix(p, q))

\* C9: optimize_disk respects the whitelist.  No step removes a path that
\* equals or lies under a whitelist entry, and removed_files holds none.
C9_OptimizeRespectsWhitelist ==
    /\ [][\A q \in exists \ exists' : ~UnderOptWhitelist(q)]_vars
    /\ [](\A k \in 1..Len(op.removed_files) : ~UnderOptWhitelist(op.removed_files[k]))

\* the home is under /var: optimize_disk removed the old file of /tmp and
\* left the cache file, which is old enough and lies under the entry /var
C9_Witness ==
    /\ op.pc = "done"
    /\ op.opts.max_age_days = 0
    /\ UnderOptWhitelist(FileCache(home))
    /\ FileCache(home) \in exists
    /\ FileCache(home) \notin unreadable \cup locked
    /\ FileA \in Range(op.removed_files)

----------------------------------------------------------------------------
(* Properties of the Dashboard (SpecDash) *)

\* the junk list of the report the Scanner returned last
LatestJunk ==
    IF "lists" \in DOMAIN sc.report /\ "junk" \in DOMAIN sc.report.lists
    THEN Range(sc.report.lists["junk"])
    ELSE {}

\* a step of the Dashboard or of its Scanner, not of the environment
DashboardStep == envSteps' = envSteps

\* a step of the model is a click on 'Clear Junk Files'
ClearClicked == db.pc = "idle" /\ DashboardStep /\ db'.pc # "scan"

\* C15: clear follows scan.  Every file a step of the Dashboard removes is in
\* the junk list of the report of the most recent scan and is not under a
\* whitelist entry; files of the report's other lists stay; and a click on
\* 'Clear Junk Files' with no scan run, or with an empty junk list, starts no
\* loop and removes nothing.
C15_ClearFollowsScan ==
    /\ [][DashboardStep =>
            \A q \in exists \ exists' : q \in LatestJunk /\ ~is_under_whitelist(q)]_vars
    /\ [][(ClearClicked /\ LatestJunk = {}) =>
            /\ exists' = exists
            /\ db'.pc = "idle"
            /\ db'.log = LogNoJunk]_vars
    /\ [](db.pc = "clear" => Range(db.junk_files) = LatestJunk)

\* after two scans, clear_junk_files has removed the log of /tmp, and the
\* executable of ~/Downloads, which the report lists as harmful, is still there
C15_Witness ==
    /\ db.pc = "idle"
    /\ db.log = LogDeleted
    /\ sc.repeated
    /\ FileA \in Range(db.deleted_files)
    /\ FileA \notin exists
    /\ FileExe(home) \in Range(sc.report.lists["harmful"])
    /\ FileExe(home) \in exists
    /\ FileHosts \in exists

====
